---- MODULE Spec2Model ----
(***************************************************************************)
(* Swar: the sonification orchestrator of the App component.               *)
(*                                                                         *)
(* The repository holds two builds of the component:                       *)
(*   "p1"  - src/unnamed/part_001 (themed App: error lookup table,         *)
(*           cumulative-time schedule, setTimeout self-stop)               *)
(*   "app" - src/frontend/src/App.tsx (validity guard, '8n' sequence,      *)
(*           Transport-scheduled self-stop, stop disposes the voice)       *)
(* The variable build says which one is mounted.  Definitions ending in    *)
(* _p1 model part_001, those ending in _app model App.tsx.                 *)
(*                                                                         *)
(* JavaScript objects are records; a missing key is a missing field.       *)
(* A note is a tuple of pitch names: <<"C4">> a single note, <<"C4","F4">> *)
(* a chord.  Durations are counted in sixteenth notes.                     *)
(***************************************************************************)
EXTENDS Integers, Sequences, FiniteSets, TLC

\* ---------------------------------------------------------------- bounds
\* play requests that get past the isPlaying test
MaxSessions == 2
\* messages delivered over all channels of a run of the lifecycle model
MaxMsgs == 2
\* messages delivered on the channel of the mapping model
MapMsgs == 2
\* messages delivered on the channel of the timing model
MaxTail == 19
\* main voices made in a run with theme changes
MaxVoices == 3
\* messages delivered in the lifecycle model with theme changes
ThemedMsgs == 1
\* messages delivered on the channel of the marker model
MaxMarkers == 32

Sessions == 1..MaxSessions

\* ------------------------------------------------------- JavaScript values
Has(o, k) == k \in DOMAIN o

\* {...a, ...b}: the keys of both, b's value where both have the key
Spread(a, b) ==
  [k \in (DOMAIN a) \cup (DOMAIN b) |-> IF k \in DOMAIN b THEN b[k] ELSE a[k]]

\* arr[k] of a JavaScript array: undefined outside 0..length-1
At(arr, k) == IF k \in 0..(Len(arr) - 1) THEN arr[k + 1] ELSE "undefined"

Abs(n) == IF n < 0 THEN 0 - n ELSE n

\* the last element of a non-empty array
Last(q) == q[Len(q)]

\* JavaScript's %: the remainder has the sign of the dividend
JsRem(a, b) == IF a < 0 THEN 0 - ((0 - a) % b) ELSE a % b

\* !x for a field that holds a number when present: missing and 0 are falsy
Falsy(o, k) == ~Has(o, k) \/ o[k] = 0
\* !x for a field that holds text when present: missing and "" are falsy
FalsyText(o, k) == ~Has(o, k) \/ o[k] = ""

\* data.isError as a condition
IsErr(d) == Has(d, "isError") /\ d.isError

\* text.includes("comment") and text.length, for the type labels of the model
TypeLabels ==
  [ function_declaration |-> [length |-> 20, comment |-> FALSE],
    arrow_function       |-> [length |-> 14, comment |-> FALSE],
    for_statement        |-> [length |-> 13, comment |-> FALSE],
    while_statement      |-> [length |-> 15, comment |-> FALSE],
    if_statement         |-> [length |-> 12, comment |-> FALSE],
    call_expression      |-> [length |-> 15, comment |-> FALSE],
    block                |-> [length |-> 5,  comment |-> FALSE],
    pair                 |-> [length |-> 4,  comment |-> FALSE],
    comment              |-> [length |-> 7,  comment |-> TRUE],
    line_comment         |-> [length |-> 12, comment |-> TRUE] ]

\* Tone.Time(d).toSeconds() at the default 120 bpm, in sixteenth notes
\* ("4n" 0.5 s, "8n" 0.25 s, "16n" 0.125 s)
toSixteenths(d) == CASE d = "4n" -> 4 [] d = "8n" -> 2 [] d = "16n" -> 1

\* ------------------------------------------------------- Palette Registry
DefaultScale == <<"C4", "D4", "E4", "F4", "G4", "A4", "B4", "C5">>
JSAsyncScale == <<"G4", "A4", "C5", "D5", "F5", "G5", "A5", "C6">>
GoSystemsScale == <<"A2", "B2", "C3", "E3", "A3", "B3", "C4", "E4">>

\* the palettes the model draws genres from (Default Dark theme / App.tsx)
musicPalettes ==
  ("default" :> [scale |-> DefaultScale]) @@
  ("JS-Async" :> [scale |-> JSAsyncScale]) @@
  ("Go-Systems" :> [scale |-> GoSystemsScale])

\* classification.genre in musicPalettes ? classification.genre : 'default'
paletteKeyOf(genre) == IF genre \in DOMAIN musicPalettes THEN genre ELSE "default"

\* App.tsx musicPalettes[key].synth: the class of the main voice
paletteSynth ==
  ("default" :> "PolySynth") @@ ("JS-Async" :> "PluckSynth") @@
  ("Go-Systems" :> "AMSynth")

\* releaseAll is a method of Tone.PolySynth; Tone's other synths have none
hasReleaseAll(class) == class = "PolySynth"

\* ---------------------------------------------------------- Theme Registry
\* theme.name of the themes the model switches between
ThemeNames == {"Default Dark", "Disney"}

\* part_001 getThemeKey: the registry key of a theme name, 'default' for a name
\* that is none of the four themed ones
getThemeKey(themeName) ==
  CASE themeName = "Harry Potter" -> "harryPotter"
    [] themeName = "Stranger Things" -> "strangerThings"
    [] themeName = "Marvel" -> "marvel"
    [] themeName = "Disney" -> "disney"
    [] OTHER -> "default"

\* disneyTheme.musicPalettes
disneyPalettes ==
  ("default" :> [scale |-> <<"C4", "E4", "G4", "C5", "E5", "G5", "C6", "E6">>]) @@
  ("JS-Async" :> [scale |-> <<"G4", "A4", "B4", "C5", "D5", "E5", "F#5", "G5">>]) @@
  ("Go-Systems" :> [scale |-> <<"F4", "G4", "A4", "Bb4", "C5", "D5", "E5", "F5">>])

\* theme.musicPalettes of the theme with this name
themePalettes(themeName) ==
  IF themeName = "Disney" THEN disneyPalettes ELSE musicPalettes

\* classification.genre in theme.musicPalettes ? classification.genre : 'default'
\* (variant whose fallback is another palette)
themedPaletteKey_otherfallback(themeName, genre) ==
  IF genre \in DOMAIN themePalettes(themeName) THEN genre ELSE "JS-Async"
themedPaletteKey(themeName, genre) ==
  IF genre \in DOMAIN themePalettes(themeName) THEN genre ELSE "default"

\* soundEffects.ts: the voice configurations of a theme, by palette key
defaultSounds ==
  ("default" :> [name |-> "Default Poly", synthType |-> "PolySynth", volume |-> 0 - 6]) @@
  ("JS-Async" :> [name |-> "Pluck Synthesis", synthType |-> "PluckSynth", volume |-> 0 - 6]) @@
  ("Go-Systems" :> [name |-> "AM Synthesis", synthType |-> "AMSynth", volume |-> 0 - 6])
disneySounds ==
  ("default" :> [name |-> "When You Wish Upon a Star", synthType |-> "PolySynth",
                 volume |-> 0 - 8]) @@
  ("JS-Async" :> [name |-> "Flying Carpet", synthType |-> "PluckSynth", volume |-> 0 - 8]) @@
  ("Go-Systems" :> [name |-> "Enchanted Objects", synthType |-> "PolySynth",
                    volume |-> 0 - 12])

\* the registry of voice configurations, by theme key
soundEffects == [default |-> defaultSounds, disney |-> disneySounds]

\* createThemedSynth: soundEffects[themeName] || soundEffects.default, then
\* themeEffects[paletteKey] || themeEffects.default; the configuration the
\* voice is constructed from
createThemedSynth(themeName, paletteKey) ==
  LET themeEffects == IF themeName \in DOMAIN soundEffects
                      THEN soundEffects[themeName] ELSE soundEffects.default
  IN IF paletteKey \in DOMAIN themeEffects
     THEN themeEffects[paletteKey] ELSE themeEffects["default"]

\* App.tsx: new palette.synth({ volume: -6, envelope })
inlineSynth(paletteKey) ==
  [name |-> "inline", synthType |-> paletteSynth[paletteKey], volume |-> 0 - 6]

\* ------------------------------------------------------------ Note Mapper
\* const noteIndex = Math.abs(data.startLine + messageCounter)
\* (variant without Math.abs)
noteIndex_noabs(d, messageCounter) == d.startLine + messageCounter
noteIndex(d, messageCounter) == Abs(d.startLine + messageCounter)

\* currentScale[noteIndex % currentScale.length]
\* (variant that reads the degree below)
scaleNote_below(scale, idx) == At(scale, JsRem(idx + Len(scale) - 1, Len(scale)))
scaleNote(scale, idx) == At(scale, JsRem(idx, Len(scale)))

\* the default case's filter: data.type.length < 5 || data.type.includes("comment")
\* (variant testing the length only)
dropped_nocomment(type) == TypeLabels[type].length < 5
dropped(type) == TypeLabels[type].length < 5 \/ TypeLabels[type].comment

\* the switch on data.type of a structural event: <<note, duration>>, or <<>>
\* when the handler returns without emitting
\* (variant with a single note for function types)
mapStructural_nochord(d, messageCounter, scale) ==
  LET n == noteIndex(d, messageCounter) IN
  CASE d.type \in {"function_declaration", "arrow_function"} ->
         << <<scaleNote(scale, n)>>, "4n" >>
    [] d.type \in {"for_statement", "while_statement"} ->
         << <<scaleNote(scale, n)>>, "8n" >>
    [] d.type = "if_statement" -> << <<scaleNote(scale, n)>>, "8n" >>
    [] OTHER -> IF dropped(d.type) THEN <<>>
                ELSE << <<scaleNote(scale, n)>>, "16n" >>
mapStructural(d, messageCounter, scale) ==
  LET n == noteIndex(d, messageCounter) IN
  CASE d.type \in {"function_declaration", "arrow_function"} ->
         << <<scaleNote(scale, n), scaleNote(scale, n + 3)>>, "4n" >>
    [] d.type \in {"for_statement", "while_statement"} ->
         << <<scaleNote(scale, n)>>, "8n" >>
    [] d.type = "if_statement" -> << <<scaleNote(scale, n)>>, "8n" >>
    [] OTHER -> IF dropped(d.type) THEN <<>>
                ELSE << <<scaleNote(scale, n)>>, "16n" >>

\* part_001: the switch on the type of an error event
\* (variant with two durations exchanged)
errorNote_swapped(type) ==
  CASE type = "syntax_error"  -> << <<"C2">>, "8n" >>
    [] type = "logical_error" -> << <<"E3">>, "8n" >>
    [] type = "runtime_error" -> << <<"D2">>, "4n" >>
    [] type = "best_practice" -> << <<"A4">>, "16n" >>
    [] OTHER                  -> << <<"C2">>, "4n" >>
errorNote(type) ==
  CASE type = "syntax_error"  -> << <<"C2">>, "4n" >>
    [] type = "logical_error" -> << <<"E3">>, "8n" >>
    [] type = "runtime_error" -> << <<"D2">>, "4n" >>
    [] type = "best_practice" -> << <<"A4">>, "16n" >>
    [] OTHER                  -> << <<"C2">>, "8n" >>

\* ------------------------------------------------------------------ state
VARIABLES
  build,            \* which build of App is mounted: "p1" or "app"
  isPlaying,        \* useState(false)
  status,           \* useState('Ready. Paste your code and press Play.')
  visualNodes,      \* useState([]): the markers, each the event it was drawn for
  cameraEffect,     \* useState(0)
  activePalette,    \* useState('default')
  highlightedLines, \* useState(null): <<>> is null, else <<[start, end, ...]>>
  allErrors,        \* part_001: useState([])
  wsRef,            \* ws.current: 0 is null, else the session whose socket it is
  synthRef,         \* synth.current: 0 is null, else a voice
  sequenceRef,      \* sequence.current: 0 is null, else the session whose sequence
  toneCtx,          \* Tone.context.state
  transport,        \* Tone.Transport.state
  nVoices,          \* main voices created so far; voice k is the k-th
  liveVoices,       \* the main voices not disposed
  draws,            \* callbacks handed to Tone.Draw.schedule, not yet run
  nMsgs,            \* messages delivered so far
  highlightBy,      \* history: the session whose event set highlightedLines last
  synthClass,       \* the class of synth.current, "none" when it is null
  mounted,          \* the App component is mounted
  threw,            \* history: a handler has ended by an uncaught exception
  theme,            \* part_001: theme.name of the theme context
  currentThemeRef,  \* part_001: currentThemeRef.current
  voiceConfig,      \* the configuration synth.current was made from, "none" when null
  volume,           \* synth.current.volume.value, 0 when synth.current is null
  errVoices,        \* secondary (error) voices created and not disposed
  restores,         \* App.tsx: the pending volume restorations on the Transport
  session           \* per play request: the closure of handlePlay and its socket

vars == << build, isPlaying, status, visualNodes, cameraEffect, activePalette,
           highlightedLines, allErrors, wsRef, synthRef, sequenceRef, toneCtx,
           transport, nVoices, liveVoices, draws, nMsgs, highlightBy, synthClass,
           mounted, threw, theme, currentThemeRef, voiceConfig, volume,
           errVoices, restores, session >>

\* the closure of one handlePlay call
\*   pc              where the async function stands
\*   sock            the socket it created: readyState, and "failing" for a
\*                   socket whose connection failed and whose error and close
\*                   events are still to be delivered
\*   scale           palette.scale
\*   musicalEvents, messageCounter, collectedErrors   the let/consts of the try block
\*   scheduledEvents, cumulativeTime                  part_001's schedule
\*   loop            the loop property of that Tone.Sequence
\*   seq, seqPos, seqLate   the Tone.Sequence made in onclose: its events on
\*                   the Transport ("live") or cancelled/disposed ("dead"), the
\*                   next index, and whether it was started on a running Transport
\*   stopTimer       the pending self-stop (setTimeout / Transport.schedule)
\*   theme           part_001: theme.name as the render of the click saw it
\*   received        history: the messages delivered to onmessage
\*   dispatched      history: the indices whose audio was triggered
\*   times           history: the Transport time of each of those triggers, in
\*                   sixteenth notes from the start of the sequence
\*   routes          history: the voices each of those triggers went to
NoSession ==
  [ pc |-> "none", sock |-> "none", scale |-> <<>>,
    musicalEvents |-> <<>>, messageCounter |-> 0, collectedErrors |-> <<>>,
    scheduledEvents |-> <<>>, cumulativeTime |-> 0,
    seq |-> "none", seqPos |-> 0, seqLate |-> FALSE, stopTimer |-> FALSE,
    theme |-> "none", loop |-> TRUE,
    received |-> <<>>, dispatched |-> <<>>, times |-> <<>>, routes |-> <<>> ]

\* the state as one value, so that handlers compose as the code calls them
Cur ==
  [ build |-> build, isPlaying |-> isPlaying, status |-> status,
    visualNodes |-> visualNodes, cameraEffect |-> cameraEffect,
    activePalette |-> activePalette, highlightedLines |-> highlightedLines,
    allErrors |-> allErrors, wsRef |-> wsRef, synthRef |-> synthRef,
    sequenceRef |-> sequenceRef, toneCtx |-> toneCtx, transport |-> transport,
    nVoices |-> nVoices, liveVoices |-> liveVoices, draws |-> draws,
    nMsgs |-> nMsgs, highlightBy |-> highlightBy, synthClass |-> synthClass,
    mounted |-> mounted, threw |-> threw, theme |-> theme,
    currentThemeRef |-> currentThemeRef, voiceConfig |-> voiceConfig,
    volume |-> volume, errVoices |-> errVoices, restores |-> restores,
    session |-> session ]

\* the next state is the value t (evaluated once)
Becomes(t) ==
  \E s \in {t} :
    /\ build' = s.build
    /\ isPlaying' = s.isPlaying
    /\ status' = s.status
    /\ visualNodes' = s.visualNodes
    /\ cameraEffect' = s.cameraEffect
    /\ activePalette' = s.activePalette
    /\ highlightedLines' = s.highlightedLines
    /\ allErrors' = s.allErrors
    /\ wsRef' = s.wsRef
    /\ synthRef' = s.synthRef
    /\ sequenceRef' = s.sequenceRef
    /\ toneCtx' = s.toneCtx
    /\ transport' = s.transport
    /\ nVoices' = s.nVoices
    /\ liveVoices' = s.liveVoices
    /\ draws' = s.draws
    /\ nMsgs' = s.nMsgs
    /\ highlightBy' = s.highlightBy
    /\ synthClass' = s.synthClass
    /\ mounted' = s.mounted
    /\ threw' = s.threw
    /\ theme' = s.theme
    /\ currentThemeRef' = s.currentThemeRef
    /\ voiceConfig' = s.voiceConfig
    /\ volume' = s.volume
    /\ errVoices' = s.errVoices
    /\ restores' = s.restores
    /\ session' = s.session

Builds == {"p1", "app"}

Init ==
  /\ build \in Builds
  /\ isPlaying = FALSE
  /\ status = "Ready. Paste your code and press Play."
  /\ visualNodes = <<>>
  /\ cameraEffect = 0
  /\ activePalette = "default"
  /\ highlightedLines = <<>>
  /\ allErrors = <<>>
  /\ wsRef = 0
  /\ synthRef = 0
  /\ sequenceRef = 0
  /\ toneCtx = "suspended"
  /\ transport = "stopped"
  /\ nVoices = 0
  /\ liveVoices = {}
  /\ draws = <<>>
  /\ nMsgs = 0
  /\ highlightBy = 0
  /\ synthClass = "none"
  /\ mounted = TRUE
  /\ threw = FALSE
  /\ theme = "Default Dark"
  /\ currentThemeRef = getThemeKey(theme)
  /\ voiceConfig = "none"
  /\ volume = 0
  /\ errVoices = 0
  /\ restores = <<>>
  /\ session = [i \in Sessions |-> NoSession]

\* ------------------------------------------------------- Tone.js, WebSocket
\* Tone.Transport.cancel(): every event on the Transport's timeline is removed:
\* the events of every started sequence and, in App.tsx, the self-stop and the
\* volume restorations that Transport.schedule put there
TransportCancel(s) ==
  [s EXCEPT !.restores = <<>>, !.session =
     [i \in Sessions |->
        [s.session[i] EXCEPT
           !.seq = IF @ = "live" THEN "dead" ELSE @,
           !.stopTimer = IF s.build = "app" THEN FALSE ELSE @]]]

\* sequence.dispose()
SequenceDispose(s, i) ==
  [s EXCEPT !.session[i].seq = IF @ = "live" THEN "dead" ELSE @]

\* synth.dispose()
VoiceDispose(s, v) == [s EXCEPT !.liveVoices = @ \ {v}]

\* WebSocket.close(): a socket still connecting fails (its error and close
\* events follow), an open one starts the closing handshake, otherwise nothing
SocketClose(s, i) ==
  [s EXCEPT !.session[i].sock =
     CASE @ = "connecting" -> "failing"
       [] @ = "open" -> "closing"
       [] OTHER -> @]

\* ws.current?.close()
WsRefClose(s) == IF s.wsRef = 0 THEN s ELSE SocketClose(s, s.wsRef)

\* --------------------------------------------------------------- stopMusic
\* part_001
stopMusic_p1(s) ==
  LET s1 == TransportCancel([s EXCEPT !.transport = "stopped"])
      s2 == IF s1.sequenceRef # 0 THEN SequenceDispose(s1, s1.sequenceRef) ELSE s1
  IN [s2 EXCEPT !.isPlaying = FALSE,
                !.highlightedLines = <<>>,
                !.highlightBy = 0,
                !.status = "Ready to play again."]

\* App.tsx: synth.current.releaseAll() is a TypeError on a voice that has no
\* such method; the statements after it do not run
releaseAllThrows(s) == s.synthRef # 0 /\ ~hasReleaseAll(s.synthClass)

\* App.tsx (playTimeoutRef.current is never assigned, so its branch never runs)
stopMusic_app(s) ==
  LET s1 == TransportCancel([s EXCEPT !.transport = "stopped"])
      s2 == IF s1.sequenceRef # 0
            THEN [SequenceDispose(s1, s1.sequenceRef) EXCEPT !.sequenceRef = 0]
            ELSE s1
      s3 == IF s2.synthRef # 0
            THEN [VoiceDispose(s2, s2.synthRef) EXCEPT !.synthRef = 0,
                                                       !.synthClass = "none",
                                                       !.voiceConfig = "none",
                                                       !.volume = 0]
            ELSE s2
      s4 == IF s3.wsRef # 0 /\ s3.session[s3.wsRef].sock = "open"
            THEN [SocketClose(s3, s3.wsRef) EXCEPT !.wsRef = 0]
            ELSE s3
  IN IF releaseAllThrows(s2)
     THEN [s2 EXCEPT !.threw = TRUE]
     ELSE [s4 EXCEPT !.isPlaying = FALSE,
                     !.highlightedLines = <<>>,
                     !.highlightBy = 0,
                     !.status = "Ready to play again.",
                     !.visualNodes = <<>>,
                     !.cameraEffect = 0]

stopMusic(s) == IF s.build = "p1" THEN stopMusic_p1(s) ELSE stopMusic_app(s)

\* this call of stopMusic ends by an exception
stopMusicThrows(s) == s.build = "app" /\ releaseAllThrows(s)

\* ------------------------------------------------------------ unmount effect
\* part_001: stopMusic(); ws.current?.close(); if (synth.current) dispose()
unmount_p1(s) ==
  LET s1 == WsRefClose(stopMusic_p1(s))
  IN IF s1.synthRef # 0 THEN VoiceDispose(s1, s1.synthRef) ELSE s1

\* App.tsx: stopMusic(); ws.current?.close()
unmount_app(s) ==
  IF stopMusicThrows(s) THEN stopMusic_app(s) ELSE WsRefClose(stopMusic_app(s))

unmount(s) == IF s.build = "p1" THEN unmount_p1(s) ELSE unmount_app(s)

\* -------------------------------------------------------------- handlePlay
\* if (synth.current) synth.current.dispose(); synth.current = a new voice made
\* from the configuration cfg
\* (variant without the dispose)
replaceSynth_nodispose(s, cfg) ==
  [s EXCEPT !.nVoices = @ + 1,
            !.liveVoices = @ \cup {s.nVoices + 1},
            !.synthRef = s.nVoices + 1,
            !.synthClass = IF s.build = "app" THEN cfg.synthType ELSE "themed",
            !.voiceConfig = cfg.name,
            !.volume = cfg.volume]
replaceSynth(s, cfg) ==
  LET s1 == IF s.synthRef # 0 THEN VoiceDispose(s, s.synthRef) ELSE s
  IN [s1 EXCEPT !.nVoices = @ + 1,
                !.liveVoices = @ \cup {s1.nVoices + 1},
                !.synthRef = s1.nVoices + 1,
                !.synthClass = IF s.build = "app" THEN cfg.synthType ELSE "themed",
                !.voiceConfig = cfg.name,
                !.volume = cfg.volume]

\* part_001 createCurrentSynth, as created by a render whose theme.name is
\* themeName
createCurrentSynth(s, themeName, paletteKey) ==
  LET themeKey == getThemeKey(themeName) IN
  replaceSynth([s EXCEPT !.currentThemeRef = themeKey],
               createThemedSynth(themeKey, paletteKey))

\* part_001, the effect on [theme.name, activePalette, createCurrentSynth]
themeEffect(s) ==
  IF s.currentThemeRef # getThemeKey(s.theme) /\ s.synthRef # 0
     /\ s.activePalette # ""
  THEN createCurrentSynth(s, s.theme, s.activePalette)
  ELSE s

\* the try block up to: await classifyCode(code)
tryStart(s, i) ==
  [s EXCEPT !.isPlaying = TRUE,
            !.visualNodes = <<>>,
            !.status = "1/3: Classifying code...",
            !.session[i].pc = "classify"]

\* the closure variables of the try block:
\*   const musicalEvents = []; let messageCounter = 0; const collectedErrors = []
\* (variant in which the counter outlives the invocation)
closureInit_stale(s, i) ==
  [s.session[i] EXCEPT
     !.musicalEvents = <<>>,
     !.messageCounter = IF i > 1 THEN s.session[i - 1].messageCounter ELSE 0,
     !.collectedErrors = <<>>]
closureInit(s, i) ==
  [s.session[i] EXCEPT !.musicalEvents = <<>>,
                       !.messageCounter = 0,
                       !.collectedErrors = <<>>]

\* from the classification to the end of the try block: palette, voice, closure
\* variables, socket and its handlers
\* part_001
afterClassify_p1(s, i, genre) ==
  LET themeName == s.session[i].theme
      paletteKey == themedPaletteKey(themeName, genre)
      s1 == createCurrentSynth([s EXCEPT !.activePalette = paletteKey],
                               themeName, paletteKey)
      s2 == [s1 EXCEPT !.status = "2/3: Analyzing code structure...",
                       !.session[i] = [closureInit(s1, i) EXCEPT
                          !.scale = themePalettes(themeName)[paletteKey].scale,
                          !.sock = "connecting",
                          !.pc = "done"],
                       !.wsRef = i]
  IN \* the render after setActivePalette runs the theme effect when the
     \* palette key changed
     IF paletteKey # s.activePalette THEN themeEffect(s2) ELSE s2

\* App.tsx
afterClassify_app(s, i, genre) ==
  LET paletteKey == paletteKeyOf(genre)
      s1 == replaceSynth([s EXCEPT !.activePalette = paletteKey],
                         inlineSynth(paletteKey))
  IN [s1 EXCEPT !.status = "2/3: Analyzing code structure...",
                !.session[i] = [closureInit(s1, i) EXCEPT
                                  !.scale = musicPalettes[paletteKey].scale,
                                  !.sock = "connecting",
                                  !.pc = "done"],
                !.wsRef = i]

afterClassify(s, i, genre) ==
  IF s.build = "p1" THEN afterClassify_p1(s, i, genre)
  ELSE afterClassify_app(s, i, genre)

\* catch (error)
\* (variant without the call of stopMusic)
catchBlock_nostop(s, i) ==
  [s EXCEPT !.status = "Error connecting to backend.", !.session[i].pc = "done"]
catchBlock(s, i) ==
  [stopMusic([s EXCEPT !.status = "Error connecting to backend."])
     EXCEPT !.session[i].pc = "done"]

\* --------------------------------------------------------------- onmessage
\* severity: data.severity || 1
\* (variant that keeps data.severity as it came)
ErrorInfoOf_raw(d) ==
  [ line |-> d.line, type |-> d.type, message |-> d.message,
    severity |-> IF Has(d, "severity") THEN d.severity ELSE 0 ]
ErrorInfoOf(d) ==
  [ line |-> d.line, type |-> d.type, message |-> d.message,
    severity |-> IF Falsy(d, "severity") THEN 1 ELSE d.severity ]

\* part_001: { note, duration, ...data, isError: true, errorType: data.type, ... }
errorEvent_p1(d) ==
  Spread(Spread([note |-> errorNote(d.type)[1], duration |-> errorNote(d.type)[2]], d),
         [isError |-> TRUE, errorType |-> d.type])

\* part_001: { note, duration, ...data }
structuralEvent_p1(d, nd) == Spread([note |-> nd[1], duration |-> nd[2]], d)

\* part_001: collectedErrors.push(...); musicalEvents.push({...error event})
\* (variants: one that also advances messageCounter; one that records the
\* error without buffering an event for it)
pushError_p1_unbuffered(c, d) ==
  [c EXCEPT !.collectedErrors = Append(@, ErrorInfoOf(d))]
pushError_p1_counted(c, d) ==
  [c EXCEPT !.collectedErrors = Append(@, ErrorInfoOf(d)),
            !.messageCounter = @ + 1,
            !.musicalEvents = Append(@, errorEvent_p1(d))]
pushError_p1(c, d) ==
  [c EXCEPT !.collectedErrors = Append(@, ErrorInfoOf(d)),
            !.musicalEvents = Append(@, errorEvent_p1(d))]

\* part_001: messageCounter++; musicalEvents.push({ note, duration, ...data })
\* (variants: without messageCounter++; with unshift in place of push)
pushStructural_p1_nocount(c, d, nd) ==
  [c EXCEPT !.musicalEvents = Append(@, structuralEvent_p1(d, nd))]
pushStructural_p1_front(c, d, nd) ==
  [c EXCEPT !.messageCounter = @ + 1,
            !.musicalEvents = << structuralEvent_p1(d, nd) >> \o @]
pushStructural_p1(c, d, nd) ==
  [c EXCEPT !.messageCounter = @ + 1,
            !.musicalEvents = Append(@, structuralEvent_p1(d, nd))]

\* (variant that reads the scale from the theme and palette of the moment)
onmessage_p1_livescale(s, i, d) ==
  LET c == s.session[i]
      currentScale == themePalettes(s.theme)[s.activePalette].scale
  IN IF IsErr(d)
     THEN [s EXCEPT !.session[i] = pushError_p1(c, d)]
     ELSE LET nd == mapStructural(d, c.messageCounter, currentScale) IN
          IF nd = <<>> THEN s
          ELSE [s EXCEPT !.session[i] = pushStructural_p1(c, d, nd)]
onmessage_p1(s, i, d) ==
  LET c == s.session[i] IN
  IF IsErr(d)
  THEN [s EXCEPT !.session[i] = pushError_p1(c, d)]
  ELSE LET nd == mapStructural(d, c.messageCounter, c.scale) IN
       IF nd = <<>> THEN s
       ELSE [s EXCEPT !.session[i] = pushStructural_p1(c, d, nd)]

\* App.tsx: note: data.note || 'C2', duration: data.duration || '8n'
errorEvent_app(d) ==
  [ note |-> IF ~Has(d, "note") THEN <<"C2">> ELSE d.note,
    duration |-> IF FalsyText(d, "duration") THEN "8n" ELSE d.duration,
    type |-> d.type, startLine |-> d.line, endLine |-> d.line,
    isError |-> TRUE, message |-> d.message ]

\* App.tsx: if (!data.type || !data.startLine || !data.endLine) return
invalidNode_app(d) ==
  FalsyText(d, "type") \/ Falsy(d, "startLine") \/ Falsy(d, "endLine")

structuralEvent_app(d, nd) ==
  [ note |-> nd[1], duration |-> nd[2], type |-> d.type,
    startLine |-> d.startLine, endLine |-> d.endLine ]

\* App.tsx: musicalEvents.push(errorEvent)
pushError_app(c, d) == [c EXCEPT !.musicalEvents = Append(@, errorEvent_app(d))]

\* App.tsx: messageCounter++; musicalEvents.push({ note, duration, type, ... })
pushStructural_app(c, d, nd) ==
  [c EXCEPT !.messageCounter = @ + 1,
            !.musicalEvents = Append(@, structuralEvent_app(d, nd))]

onmessage_app(s, i, d) ==
  LET c == s.session[i] IN
  IF IsErr(d)
  THEN [s EXCEPT !.session[i] = pushError_app(c, d),
                 !.highlightedLines =
                    << [start |-> d.line, end |-> d.line, isError |-> TRUE,
                        message |-> d.message] >>,
                 !.highlightBy = i,
                 !.status = "Error detected: <message>"]
  ELSE IF invalidNode_app(d) THEN s
  ELSE LET nd == mapStructural(d, c.messageCounter, c.scale) IN
       IF nd = <<>> THEN s
       ELSE [s EXCEPT !.session[i] = pushStructural_app(c, d, nd)]

onmessage(s, i, d) ==
  IF s.build = "p1" THEN onmessage_p1(s, i, d) ELSE onmessage_app(s, i, d)

\* ----------------------------------------------------------------- onclose
\* part_001, the Timeline Builder:
\*   musicalEvents.forEach(event => {
\*     scheduledEvents.push({ time: cumulativeTime, ...event });
\*     cumulativeTime += Tone.Time(event.duration).toSeconds(); })
\* (variant adding the duration before the push)
RECURSIVE forEachEvent_late(_, _, _)
forEachEvent_late(events, scheduledEvents, cumulativeTime) ==
  IF events = <<>>
  THEN [scheduledEvents |-> scheduledEvents, cumulativeTime |-> cumulativeTime]
  ELSE LET next == cumulativeTime + toSixteenths(Head(events).duration) IN
       forEachEvent_late(Tail(events),
                    Append(scheduledEvents, Spread([time |-> next], Head(events))),
                    next)
RECURSIVE forEachEvent(_, _, _)
forEachEvent(events, scheduledEvents, cumulativeTime) ==
  IF events = <<>>
  THEN [scheduledEvents |-> scheduledEvents, cumulativeTime |-> cumulativeTime]
  ELSE forEachEvent(Tail(events),
                    Append(scheduledEvents,
                           Spread([time |-> cumulativeTime], Head(events))),
                    cumulativeTime + toSixteenths(Head(events).duration))

\* part_001 ws.onclose
\* (variant without the check for an empty buffer)
onclose_p1_unguarded(s, i) ==
  LET c == s.session[i]
      built == forEachEvent(c.musicalEvents, <<>>, 0)
  IN [s EXCEPT !.allErrors = c.collectedErrors,
               !.status = "3/3: Composing and playing music...",
               !.session[i].scheduledEvents = built.scheduledEvents,
               !.session[i].cumulativeTime = built.cumulativeTime,
               !.session[i].seq = "live",
               !.session[i].seqPos = 1,
               !.session[i].seqLate = (s.transport = "started"),
               !.session[i].loop = FALSE,
               !.session[i].stopTimer = TRUE,
               !.sequenceRef = i,
               !.transport = "started"]
onclose_p1(s, i) ==
  LET c == s.session[i]
      s1 == [s EXCEPT !.allErrors = c.collectedErrors]
  IN IF Len(c.musicalEvents) = 0
     THEN [s1 EXCEPT !.status = "No parsable musical elements found.",
                     !.isPlaying = FALSE]
     ELSE LET built == forEachEvent(c.musicalEvents, <<>>, 0) IN
          [s1 EXCEPT !.status = "3/3: Composing and playing music...",
                     !.session[i].scheduledEvents = built.scheduledEvents,
                     !.session[i].cumulativeTime = built.cumulativeTime,
                     !.session[i].seq = "live",
                     !.session[i].seqPos = 1,
                     !.session[i].seqLate = (s.transport = "started"),
                     !.session[i].loop = FALSE,
                     !.session[i].stopTimer = TRUE,
                     !.sequenceRef = i,
                     !.transport = "started"]

onclose_app(s, i) ==
  LET c == s.session[i] IN
  IF Len(c.musicalEvents) = 0
  THEN [s EXCEPT !.status = "No parsable musical elements found.",
                 !.isPlaying = FALSE]
  ELSE LET s1 == TransportCancel([s EXCEPT !.transport = "stopped"]) IN
       [s1 EXCEPT !.status = "3/3: Composing and playing music...",
                  !.session[i].seq = "live",
                  !.session[i].seqPos = 1,
                  !.session[i].seqLate = FALSE,
                  !.session[i].loop = FALSE,
                  !.session[i].stopTimer = TRUE,
                  !.sequenceRef = i,
                  !.transport = "started"]

onclose(s, i) == IF s.build = "p1" THEN onclose_p1(s, i) ELSE onclose_app(s, i)

\* ws.onerror
onerror(s) == stopMusic([s EXCEPT !.status = "Error connecting to visualizer."])

\* ------------------------------------------------- the Tone.Sequence callback
\* the events the sequence of session i was given
sequenceEvents(s, i) ==
  IF s.build = "p1" THEN s.session[i].scheduledEvents ELSE s.session[i].musicalEvents

\* Tone.Sequence(callback, events, subdivision).start(0): the event at index
\* k (from 0) is due k subdivisions after the start; the subdivision is '8n',
\* given by App.tsx and the default in part_001
sequenceTime(events, k) == (k - 1) * toSixteenths("8n")

\* the index a Tone.Sequence of n events goes to after index k: a looping
\* sequence starts over after its last event, one with loop = false ends
\* (variant that starts over whatever loop says)
sequenceNext_looping(loop, k, n) == IF k = n THEN 1 ELSE k + 1
sequenceNext(loop, k, n) == IF loop /\ k = n THEN 1 ELSE k + 1

\* part_001: audio on a secondary voice (error) or on synth.current, then
\* Tone.Draw.schedule
sequenceCallback_p1(s, i) ==
  LET k == s.session[i].seqPos
      event == s.session[i].scheduledEvents[k]
  IN [s EXCEPT !.session[i].seqPos =
                  sequenceNext(s.session[i].loop, k, Len(s.session[i].scheduledEvents)),
               !.session[i].dispatched = Append(@, k),
               !.session[i].times =
                  Append(@, sequenceTime(s.session[i].scheduledEvents, k)),
               !.session[i].routes =
                  Append(@, IF IsErr(event)
                            THEN [main |-> FALSE, secondary |-> TRUE]
                            ELSE [main |-> s.synthRef # 0, secondary |-> FALSE]),
               !.errVoices = IF IsErr(event) THEN @ + 1 ELSE @,
               !.draws = Append(@, [s |-> i, k |-> k])]

\* App.tsx: if (!event || !synth.current) return; audio; Tone.Draw.schedule
DuckedVolume == 0 - 25

\* App.tsx, the isError branch: originalVolume = synth.current.volume.value;
\* the volume is set to -25; a secondary voice is made; the restoration is
\* put on the Transport
duck(s) ==
  [s EXCEPT !.volume = DuckedVolume,
            !.errVoices = @ + 1,
            !.restores = Append(@, [originalVolume |-> s.volume])]

sequenceCallback_app(s, i) ==
  LET k == s.session[i].seqPos
      event == s.session[i].musicalEvents[k]
      s1 == IF IsErr(event) THEN duck(s) ELSE s
  IN IF s.synthRef = 0
     THEN [s EXCEPT !.session[i].seqPos =
                       sequenceNext(s.session[i].loop, k, Len(s.session[i].musicalEvents))]
     ELSE [s1 EXCEPT !.session[i].seqPos =
                        sequenceNext(s.session[i].loop, k, Len(s.session[i].musicalEvents)),
                     !.session[i].dispatched = Append(@, k),
                     !.session[i].times =
                        Append(@, sequenceTime(s.session[i].musicalEvents, k)),
                     !.session[i].routes =
                        Append(@, [main |-> TRUE, secondary |-> IsErr(event)]),
                     !.draws = Append(@, [s |-> i, k |-> k])]

\* App.tsx, the restoration callback: synth.current.volume.value =
\* originalVolume (a TypeError when synth.current is null); errorSynth.dispose()
restoreCallback(s, r) ==
  IF s.synthRef = 0 THEN [s EXCEPT !.threw = TRUE]
  ELSE [s EXCEPT !.volume = r.originalVolume, !.errVoices = @ - 1]

sequenceCallback(s, i) ==
  IF s.build = "p1" THEN sequenceCallback_p1(s, i) ELSE sequenceCallback_app(s, i)

\* --------------------------------------------------- the Tone.Draw callback
\* prev.slice(-30)
SliceKeep == 30
\* (variant that keeps every marker)
sliceLast_keepall(nodes) == nodes
sliceLast(nodes) ==
  IF Len(nodes) <= SliceKeep THEN nodes
  ELSE SubSeq(nodes, Len(nodes) - SliceKeep + 1, Len(nodes))

\* a marker: the event it was drawn for and what the markers show of it
newNode(e, event) ==
  [ of |-> <<e.s, e.k>>, type |-> event.type, isError |-> IsErr(event) ]

\* { start: event.startLine, end: event.endLine }: a missing key reads undefined
lineSpan(event) ==
  Spread(IF Has(event, "startLine") THEN [start |-> event.startLine]
                                    ELSE [k \in {} |-> 0],
         IF Has(event, "endLine") THEN [end |-> event.endLine]
                                  ELSE [k \in {} |-> 0])

drawCallback_p1(s, e) ==
  LET event == s.session[e.s].scheduledEvents[e.k] IN
  [s EXCEPT !.highlightedLines = << lineSpan(event) >>,
            !.highlightBy = e.s,
            !.cameraEffect = IF IsErr(event) THEN 2 ELSE 1,
            !.visualNodes = Append(sliceLast(@), newNode(e, event))]

drawCallback_app(s, e) ==
  LET event == s.session[e.s].musicalEvents[e.k]
      lit == ~Falsy(event, "startLine") /\ ~Falsy(event, "endLine")
      s1 == IF lit
            THEN [s EXCEPT !.highlightedLines = << lineSpan(event) >>,
                           !.highlightBy = e.s,
                           !.status = IF IsErr(event) /\ ~FalsyText(event, "message")
                                      THEN "Error at line <n>: <message>" ELSE @]
            ELSE s
  IN [s1 EXCEPT !.cameraEffect = IF IsErr(event) THEN 2 ELSE 1,
                !.visualNodes = Append(sliceLast(@), newNode(e, event))]

drawCallback(s, e) ==
  IF s.build = "p1" THEN drawCallback_p1(s, e) ELSE drawCallback_app(s, e)

\* ---------------------------------------------------------------- inputs
\* classification.genre: two registered genres and one that is not
Genres == {"JS-Async", "Go-Systems", "Rust"}

ErrMessage == "unexpected token"

\* the messages of Scenarios A and B
ScenarioA == [type |-> "for_statement", startLine |-> 1, endLine |-> 3]
ScenarioB == [type |-> "function_declaration", startLine |-> 0, endLine |-> 8]

\* the messages of the lifecycle model
Msgs ==
  { ScenarioA,
    [type |-> "if_statement", startLine |-> 1, endLine |-> 2],
    [type |-> "line_comment", startLine |-> 5, endLine |-> 5],
    [isError |-> TRUE, type |-> "syntax_error", line |-> 2,
     message |-> ErrMessage, severity |-> 2] }

\* the messages of the single-session model: those, and an error that comes
\* with severity 0
LiveMsgs ==
  Msgs \cup { [isError |-> TRUE, type |-> "logical_error", line |-> 4,
               message |-> "unused variable", severity |-> 0] }

\* the messages of the timing model: one of each duration ('4n', '8n', '16n')
TailMsgs ==
  { [type |-> "function_declaration", startLine |-> 1, endLine |-> 9],
    [type |-> "for_statement", startLine |-> 1, endLine |-> 3],
    [type |-> "call_expression", startLine |-> 1, endLine |-> 1] }

\* the messages of the marker model: events long enough for a session of
\* MaxMarkers of them to play to its end
MarkerMsgs ==
  { [type |-> "function_declaration", startLine |-> 1, endLine |-> 9],
    [type |-> "for_statement", startLine |-> 1, endLine |-> 3] }

\* the messages of the mapping model
StartLines == {0 - 2, 0, 7}
ErrorTypes ==
  {"syntax_error", "logical_error", "runtime_error", "best_practice", "warning"}
StructuralMsgs ==
  { [type |-> t, startLine |-> l, endLine |-> l + 3] :
      t \in DOMAIN TypeLabels, l \in StartLines }
ErrorMsgs ==
  { [isError |-> TRUE, type |-> t, line |-> 2, message |-> ErrMessage,
     severity |-> v] : t \in ErrorTypes, v \in {0, 2} }
  \cup
  { [isError |-> TRUE, type |-> t, line |-> 2, message |-> ErrMessage,
     severity |-> 2, note |-> <<"G1">>, duration |-> "16n"] : t \in ErrorTypes }
MapMsgSet == StructuralMsgs \cup ErrorMsgs \cup {ScenarioB}

\* --------------------------------------------------------------- actions
\* a play request with isPlaying false.  Session i is the closure of this call.
HandlePlay(i) ==
  /\ mounted
  /\ ~isPlaying
  /\ session[i].pc = "none"
  /\ \A j \in Sessions : j < i => session[j].pc # "none"
  /\ LET s == [Cur EXCEPT !.session[i].theme = theme] IN
     IF toneCtx # "running"
     THEN Becomes([s EXCEPT !.session[i].pc = "toneStart"])
     ELSE Becomes(tryStart(s, i))

\* handlePlay's isPlaying branch, the stop request: ws.current?.close(); return
stopRequest(s) == WsRefClose(s)

\* a play request with isPlaying true
StopClick ==
  /\ mounted
  /\ isPlaying
  /\ Becomes(stopRequest(Cur))

\* the audio context starts running: every pending await Tone.start() resumes,
\* in the order of the calls, within one task
RECURSIVE resumeFrom(_, _)
resumeFrom(s, i) ==
  IF i > MaxSessions THEN s
  ELSE resumeFrom(IF s.session[i].pc = "toneStart" THEN tryStart(s, i) ELSE s, i + 1)

ToneStarted ==
  /\ \E i \in Sessions : session[i].pc = "toneStart"
  /\ Becomes(resumeFrom([Cur EXCEPT !.toneCtx = "running"], 1))

\* await classifyCode(code) returns a classification
ClassifyOk(i, genre) ==
  /\ session[i].pc = "classify"
  /\ Becomes(afterClassify(Cur, i, genre))

\* await classifyCode(code) throws
ClassifyFail(i) ==
  /\ session[i].pc = "classify"
  /\ Becomes(catchBlock(Cur, i))

\* the socket's open event: onopen sends the code
WsOpen(i) ==
  /\ session[i].sock = "connecting"
  /\ Becomes([Cur EXCEPT !.session[i].sock = "open"])

\* a message event; the user agent delivers none unless the socket is open
WsMessage(i, d, cap) ==
  /\ session[i].sock = "open"
  /\ nMsgs < cap
  /\ Becomes(onmessage([Cur EXCEPT !.nMsgs = @ + 1,
                                   !.session[i].received = Append(@, d)], i, d))

\* the close event of a connection that ended without failing
WsClose(i) ==
  /\ session[i].sock \in {"open", "closing"}
  /\ Becomes(onclose([Cur EXCEPT !.session[i].sock = "closed"], i))

\* a failed connection: the user agent sets readyState to CLOSED and fires the
\* error event and then the close event, in one task
WsError(i) ==
  /\ session[i].sock \in {"connecting", "open", "closing", "failing"}
  /\ Becomes(onclose(onerror([Cur EXCEPT !.session[i].sock = "closed"]), i))

\* the Transport reaches the next event of session i's sequence
SequenceFire(i) ==
  /\ transport = "started"
  /\ session[i].seq = "live"
  /\ session[i].seqPos \in 1..Len(sequenceEvents(Cur, i))
  /\ Becomes(sequenceCallback(Cur, i))

\* a sequence started on a Transport already past the event's time never
\* fires the event
SequenceMiss(i) ==
  /\ transport = "started"
  /\ session[i].seq = "live"
  /\ session[i].seqLate
  /\ session[i].seqPos \in 1..Len(sequenceEvents(Cur, i))
  /\ Becomes([Cur EXCEPT !.session[i].seqPos = @ + 1])

\* Tone.Draw runs the oldest scheduled callback
DrawFire ==
  /\ draws # <<>>
  /\ Becomes(drawCallback([Cur EXCEPT !.draws = Tail(@)], Head(draws)))

\* the self-stop armed in onclose fires: part_001's setTimeout, App.tsx's
\* Transport.schedule (which needs the Transport running)
SelfStop(i) ==
  /\ session[i].stopTimer
  /\ build = "app" => transport = "started"
  /\ Becomes(stopMusic([Cur EXCEPT !.session[i].stopTimer = FALSE]))

\* App.tsx: the Transport reaches the oldest pending volume restoration
RestoreFire ==
  /\ transport = "started"
  /\ restores # <<>>
  /\ Becomes(restoreCallback([Cur EXCEPT !.restores = Tail(@)], Head(restores)))

\* part_001: the user picks another theme; the render that follows runs the
\* theme effect.  (App.tsx's App does not read the theme.)
ThemeChange(name) ==
  /\ build = "p1"
  /\ mounted
  /\ name # theme
  /\ nVoices < MaxVoices
  /\ Becomes(themeEffect([Cur EXCEPT !.theme = name]))

\* when the self-stop of session i is due, in sixteenth notes (0.125 s) from
\* the start of the Transport: part_001 setTimeout(stopMusic, (cumulativeTime
\* + 2) * 1000); App.tsx Transport.schedule(..., `+${totalDuration + 1}`) with
\* totalDuration = musicalEvents.length * Tone.Time('8n').toSeconds()
selfStopTime(s, i) ==
  IF s.build = "p1"
  THEN s.session[i].cumulativeTime + 16
  ELSE Len(s.session[i].musicalEvents) * toSixteenths("8n") + 8

\* session i's sequence still has an event to fire
SequencePending(i) ==
  /\ session[i].seq = "live"
  /\ session[i].seqPos \in 1..Len(sequenceEvents(Cur, i))

\* the timing model: the message arrives whose duration is not longer than the
\* last buffered one's (the order of the durations does not matter to when
\* the sequence and the self-stop are due)
TailMessage(d) ==
  /\ IF session[1].musicalEvents = <<>> THEN TRUE
     ELSE toSixteenths(mapStructural(d, 0, DefaultScale)[2])
            <= toSixteenths(Last(session[1].musicalEvents).duration)
  /\ WsMessage(1, d, MaxTail)

\* the marker model: a message whose event is no longer than the event before
MarkerMessage(d) ==
  /\ IF session[1].musicalEvents = <<>> THEN TRUE
     ELSE toSixteenths(mapStructural(d, 0, DefaultScale)[2])
            <= toSixteenths(Last(session[1].musicalEvents).duration)
  /\ WsMessage(1, d, MaxMarkers)

\* the timing model: the next event of the sequence fires when it is due:
\* after the draw callback of the event before it, and not after the self-stop
TimedSequenceFire(i) ==
  /\ draws = <<>>
  /\ session[i].stopTimer =>
       sequenceTime(sequenceEvents(Cur, i), session[i].seqPos) <= selfStopTime(Cur, i)
  /\ SequenceFire(i)

\* the timing model: the self-stop fires when it is due: not before an event
\* of the sequence that is due by then
TimedSelfStop(i) ==
  /\ draws = <<>>
  /\ SequencePending(i) =>
       sequenceTime(sequenceEvents(Cur, i), session[i].seqPos) > selfStopTime(Cur, i)
  /\ SelfStop(i)

\* the component is unmounted: the cleanup of its last effect runs
Unmount ==
  /\ mounted
  /\ Becomes([unmount(Cur) EXCEPT !.mounted = FALSE])

Next ==
  \/ \E i \in Sessions : HandlePlay(i)
  \/ StopClick
  \/ ToneStarted
  \/ \E i \in Sessions, g \in Genres \ {"Go-Systems"} : ClassifyOk(i, g)
  \/ \E i \in Sessions : ClassifyFail(i)
  \/ \E i \in Sessions : WsOpen(i)
  \/ \E i \in Sessions, d \in Msgs : WsMessage(i, d, MaxMsgs)
  \/ \E i \in Sessions : WsClose(i)
  \/ \E i \in Sessions : WsError(i)
  \/ \E i \in Sessions : SequenceFire(i)
  \/ \E i \in Sessions : SequenceMiss(i)
  \/ DrawFire
  \/ RestoreFire
  \/ \E i \in Sessions : SelfStop(i)
  \/ Unmount

Spec == Init /\ [][Next]_vars

\* the mapping model: one session ingesting messages of every shape
NextMap ==
  \/ HandlePlay(1)
  \/ ToneStarted
  \/ \E g \in Genres : ClassifyOk(1, g)
  \/ WsOpen(1)
  \/ \E d \in MapMsgSet : WsMessage(1, d, MapMsgs)
  \/ WsClose(1)

SpecMap == Init /\ [][NextMap]_vars

\* the single-session model: one play request from click to the end of its
\* playback, with theme changes; the timers and the Transport's callbacks
\* that are due do run
NextLive ==
  \/ HandlePlay(1)
  \/ StopClick
  \/ ToneStarted
  \/ \E g \in Genres : ClassifyOk(1, g)
  \/ ClassifyFail(1)
  \/ WsOpen(1)
  \/ \E d \in LiveMsgs : WsMessage(1, d, MaxMsgs)
  \/ WsClose(1)
  \/ WsError(1)
  \/ SequenceFire(1)
  \/ DrawFire
  \/ RestoreFire
  \/ SelfStop(1)
  \/ \E name \in ThemeNames : ThemeChange(name)

SpecLive ==
  /\ Init
  /\ [][NextLive]_vars
  /\ WF_vars(SequenceFire(1))
  /\ WF_vars(DrawFire)
  /\ WF_vars(RestoreFire)
  /\ WF_vars(SelfStop(1))

\* the lifecycle model with theme changes
NextThemed ==
  \/ \E i \in Sessions : HandlePlay(i)
  \/ StopClick
  \/ ToneStarted
  \/ \E i \in Sessions, g \in Genres \ {"Go-Systems"} : ClassifyOk(i, g)
  \/ \E i \in Sessions : ClassifyFail(i)
  \/ \E i \in Sessions : WsOpen(i)
  \/ \E i \in Sessions, d \in Msgs : WsMessage(i, d, ThemedMsgs)
  \/ \E i \in Sessions : WsClose(i)
  \/ \E i \in Sessions : WsError(i)
  \/ \E i \in Sessions : SequenceFire(i)
  \/ DrawFire
  \/ RestoreFire
  \/ \E i \in Sessions : SelfStop(i)
  \/ \E name \in ThemeNames : ThemeChange(name)
  \/ Unmount

SpecThemed == Init /\ [][NextThemed]_vars

\* the timing model: one session without user action or failure, its events
\* and its self-stop in the order of their due times
NextTail ==
  \/ HandlePlay(1)
  \/ ToneStarted
  \/ ClassifyOk(1, "Rust")
  \/ WsOpen(1)
  \/ \E d \in TailMsgs : TailMessage(d)
  \/ WsClose(1)
  \/ TimedSequenceFire(1)
  \/ DrawFire
  \/ TimedSelfStop(1)

SpecTail == Init /\ [][NextTail]_vars

\* the marker model: one long session without user action or failure
NextMarkers ==
  \/ HandlePlay(1)
  \/ ToneStarted
  \/ ClassifyOk(1, "Rust")
  \/ WsOpen(1)
  \/ \E d \in MarkerMsgs : MarkerMessage(d)
  \/ WsClose(1)
  \/ TimedSequenceFire(1)
  \/ DrawFire
  \/ TimedSelfStop(1)

SpecMarkers == Init /\ [][NextMarkers]_vars

\* ------------------------------------------------------------------ claims

FunctionTypes == {"function_declaration", "arrow_function"}
LoopTypes == {"for_statement", "while_statement"}

\* the type labels the claims call dropped
ClaimDropped(type) ==
  /\ type \notin FunctionTypes \cup LoopTypes \cup {"if_statement"}
  /\ (TypeLabels[type].length < 5 \/ TypeLabels[type].comment)

\* session i has just been delivered a message: the message
Delivered(i) == Len(session'[i].received) = Len(session[i].received) + 1
DeliveredMsg(i) == Last(session'[i].received)

\* the channel of session i exists and its close callback has not run
ChannelLive(i) == session[i].sock \in {"connecting", "open", "closing", "failing"}

\* the schedule of session i has been built and handed to a dispatcher
Built(i) == session[i].seq # "none"

RECURSIVE SumDur(_, _)
SumDur(events, k) ==
  IF k = 0 THEN 0 ELSE SumDur(events, k - 1) + toSixteenths(events[k].duration)

\* C1: in the schedule part_001's close handler builds, the first startOffset is
\* 0, every later one is the previous startOffset plus the previous event's
\* duration, so offsets never decrease and equal the sum of the durations of all
\* preceding events, and the accumulated total is the last offset plus the last
\* duration.
C1_ScheduleIsCumulative ==
  \A i \in Sessions :
    (build = "p1" /\ Built(i)) =>
      LET ev == session[i].musicalEvents
          sch == session[i].scheduledEvents
          n == Len(ev)
      IN /\ n > 0
         /\ Len(sch) = n
         /\ sch[1].time = 0
         /\ \A k \in 2..n :
              /\ sch[k].time = sch[k - 1].time + toSixteenths(ev[k - 1].duration)
              /\ sch[k - 1].time <= sch[k].time
         /\ \A k \in 1..n : sch[k].time = SumDur(ev, k - 1)
         /\ session[i].cumulativeTime = sch[n].time + toSixteenths(ev[n].duration)

\* a quarter note then a sixteenth: offsets 0 and 4, total 5
C1_Witness ==
  \E i \in Sessions :
    /\ build = "p1" /\ Built(i)
    /\ Len(session[i].scheduledEvents) = 2
    /\ session[i].scheduledEvents[2].time = 4
    /\ session[i].cumulativeTime = 5

\* C2: the buffer lists the emitted events in the order their messages arrived,
\* the schedule lists the buffer's events in the same order (none merged, also
\* when events share a start line), and the events are dispatched in increasing
\* schedule position.
EventOf(e, d) ==
  /\ e.type = d.type
  /\ IsErr(e) = IsErr(d)
  /\ IF IsErr(d)
     THEN (Has(e, "line") /\ e.line = d.line) \/
          (Has(e, "startLine") /\ e.startLine = d.line)
     ELSE e.startLine = d.startLine /\ e.endLine = d.endLine

\* events are the events of some of the messages, in the messages' order
RECURSIVE InArrivalOrder(_, _)
InArrivalOrder(events, msgs) ==
  IF events = <<>> THEN TRUE
  ELSE IF msgs = <<>> THEN FALSE
  ELSE \/ EventOf(Head(events), Head(msgs)) /\ InArrivalOrder(Tail(events), Tail(msgs))
       \/ InArrivalOrder(events, Tail(msgs))

C2_OrderPreserved ==
  \A i \in Sessions :
    LET ev == session[i].musicalEvents
        sch == sequenceEvents(Cur, i)
        dis == session[i].dispatched
    IN /\ InArrivalOrder(ev, session[i].received)
       /\ Built(i) =>
            /\ Len(sch) = Len(ev)
            /\ \A k \in 1..Len(ev) : \A f \in DOMAIN ev[k] : sch[k][f] = ev[k][f]
       /\ \A k \in 1..Len(dis) : dis[k] \in 1..Len(ev)
       /\ \A k \in 2..Len(dis) : dis[k - 1] < dis[k]

\* two events on the same start line, received, scheduled and dispatched in order
C2_Witness ==
  \E i \in Sessions :
    /\ Len(session[i].musicalEvents) = 2
    /\ session[i].musicalEvents[1].type = "for_statement"
    /\ session[i].musicalEvents[2].type = "if_statement"
    /\ session[i].musicalEvents[1].startLine = session[i].musicalEvents[2].startLine
    /\ session[i].dispatched = <<1, 2>>

\* C3: every structural event that is not dropped is emitted with
\* noteIndex = |startLine + running index| mod scale length: function types as
\* the chord [scale[noteIndex], scale[(noteIndex+3) mod L]] with a quarter note,
\* loop types and if_statement as scale[noteIndex] with an eighth note, every
\* other type as scale[noteIndex] with a sixteenth note.
ClaimedNote(d, r, scale) ==
  LET L == Len(scale)
      n == Abs(d.startLine + r) % L
  IN CASE d.type \in FunctionTypes -> << <<scale[n + 1], scale[((n + 3) % L) + 1]>>, "4n" >>
       [] d.type \in LoopTypes -> << <<scale[n + 1]>>, "8n" >>
       [] d.type = "if_statement" -> << <<scale[n + 1]>>, "8n" >>
       [] OTHER -> << <<scale[n + 1]>>, "16n" >>

C3_StructuralEventMapped ==
  [][ \A i \in Sessions :
        (Delivered(i) /\ ~IsErr(DeliveredMsg(i)) /\ ~ClaimDropped(DeliveredMsg(i).type)) =>
          LET want == ClaimedNote(DeliveredMsg(i), session[i].messageCounter,
                                  session[i].scale)
          IN /\ Len(session'[i].musicalEvents) = Len(session[i].musicalEvents) + 1
             /\ Last(session'[i].musicalEvents).note = want[1]
             /\ Last(session'[i].musicalEvents).duration = want[2] ]_vars

\* C4: handling a non-error event of a dropped type leaves the buffer and the
\* running index unchanged.
C4_DroppedLeavesNoTrace ==
  [][ \A i \in Sessions :
        (Delivered(i) /\ ~IsErr(DeliveredMsg(i)) /\ ClaimDropped(DeliveredMsg(i).type)) =>
          /\ session'[i].musicalEvents = session[i].musicalEvents
          /\ session'[i].messageCounter = session[i].messageCounter ]_vars

\* an emitted event, then a comment: one event in the buffer, index 1
C4_Witness ==
  \E i \in Sessions :
    /\ Len(session[i].received) = 2
    /\ session[i].received[2].type = "line_comment"
    /\ Len(session[i].musicalEvents) = 1
    /\ session[i].messageCounter = 1

\* C5: the running index is the number of non-error events in the buffer.
C5_IndexCountsStructuralEvents ==
  \A i \in Sessions :
    session[i].messageCounter =
      Cardinality({k \in 1..Len(session[i].musicalEvents) :
                     ~IsErr(session[i].musicalEvents[k])})

\* an error event and a structural event buffered: index 1
C5_Witness ==
  \E i \in Sessions :
    /\ Len(session[i].musicalEvents) = 2
    /\ IsErr(session[i].musicalEvents[1])
    /\ ~IsErr(session[i].musicalEvents[2])
    /\ session[i].messageCounter = 1

\* C6: every error event appends exactly one event, flagged as an error, to the
\* buffer and leaves the running index unchanged.
C6_ErrorAlwaysBuffered ==
  [][ \A i \in Sessions :
        (Delivered(i) /\ IsErr(DeliveredMsg(i))) =>
          /\ Len(session'[i].musicalEvents) = Len(session[i].musicalEvents) + 1
          /\ SubSeq(session'[i].musicalEvents, 1, Len(session[i].musicalEvents))
               = session[i].musicalEvents
          /\ IsErr(Last(session'[i].musicalEvents))
          /\ Last(session'[i].musicalEvents).type = DeliveredMsg(i).type
          /\ session'[i].messageCounter = session[i].messageCounter ]_vars

\* an error of an unknown kind with severity 0 after a structural event
C6_Witness ==
  \E i \in Sessions :
    /\ Len(session[i].received) = 2
    /\ IsErr(session[i].received[2])
    /\ session[i].received[2].type = "warning"
    /\ session[i].received[2].severity = 0
    /\ Len(session[i].musicalEvents) = 2
    /\ IsErr(session[i].musicalEvents[2])
    /\ session[i].messageCounter = 1

\* C7: the note and duration of a buffered error event are those of the table,
\* by its kind alone: syntax (C2, quarter), logical (E3, eighth), runtime
\* (D2, quarter), style (A4, sixteenth), any other kind (C2, eighth).
ClaimedErrorNote(type) ==
  CASE type = "syntax_error"  -> << <<"C2">>, "4n" >>
    [] type = "logical_error" -> << <<"E3">>, "8n" >>
    [] type = "runtime_error" -> << <<"D2">>, "4n" >>
    [] type = "best_practice" -> << <<"A4">>, "16n" >>
    [] OTHER                  -> << <<"C2">>, "8n" >>

C7_ErrorNoteByKind ==
  \A i \in Sessions :
    \A k \in 1..Len(session[i].musicalEvents) :
      LET e == session[i].musicalEvents[k] IN
      IsErr(e) => << e.note, e.duration >> = ClaimedErrorNote(e.type)

\* C8: two sessions with the same palette that were delivered the same
\* messages hold the same buffer and, once built, the same schedule.
C8_Deterministic ==
  \A i \in Sessions : \A j \in Sessions :
    ( /\ session[i].scale # <<>>
      /\ session[i].scale = session[j].scale
      /\ session[i].received = session[j].received ) =>
        /\ session[i].musicalEvents = session[j].musicalEvents
        /\ (Built(i) /\ Built(j)) =>
             /\ sequenceEvents(Cur, i) = sequenceEvents(Cur, j)
             /\ session[i].cumulativeTime = session[j].cumulativeTime

\* the second session was delivered what the first was, and both are scheduled
C8_Witness ==
  /\ session[1].scale # <<>>
  /\ session[1].scale = session[2].scale
  /\ session[1].received = session[2].received
  /\ Len(session[1].musicalEvents) = 1
  /\ ~IsErr(session[1].musicalEvents[1])
  /\ Built(1) /\ Built(2)

\* C9: while the channel of a session has not closed, none of its events has
\* had its audio triggered, set the highlight or produced a marker; and once
\* its playback has started its channel is closed, so nothing is appended.
C9_PhaseSeparated ==
  \A i \in Sessions :
    /\ ChannelLive(i) =>
         /\ session[i].dispatched = <<>>
         /\ highlightBy # i
         /\ \A k \in 1..Len(draws) : draws[k].s # i
         /\ \A k \in 1..Len(visualNodes) : visualNodes[k].of[1] # i
    /\ Built(i) => session[i].sock = "closed"

\* C10: in part_001, at every reachable state at most one session has a live
\* channel, dispatcher or self-stop timer.
SessionActive(i) ==
  \/ ChannelLive(i)
  \/ session[i].seq = "live"
  \/ session[i].stopTimer

C10_OneActiveSession ==
  build = "p1" => Cardinality({i \in Sessions : SessionActive(i)}) <= 1

\* C11: stop is idempotent: at every reachable state, stopMusic called twice in
\* a row leaves the state one call leaves, and the second call raises no error.
C11_StopIdempotent ==
  /\ stopMusic(stopMusic(Cur)) = stopMusic(Cur)
  /\ ~stopMusicThrows(stopMusic(Cur))

\* session i has come to its end: its handlePlay has returned, its channel
\* has closed, and neither its dispatcher nor its self-stop is pending
SessionEnded(i) ==
  /\ session[i].pc = "done"
  /\ ~SessionActive(i)

\* the system is Idle: not shown playing, no play request in flight, and no
\* session with a live channel, dispatcher or self-stop
Idle ==
  /\ ~isPlaying
  /\ \A i \in Sessions :
       session[i].pc \notin {"toneStart", "classify"} /\ ~SessionActive(i)

\* C12: in part_001, whenever a session has ended and the system is Idle, no
\* main voice is live (created and not disposed).
C12_NoDanglingVoice ==
  (build = "p1" /\ Idle /\ \E i \in Sessions : SessionEnded(i)) => liveVoices = {}

\* C13: whenever a session has ended and the system is not shown playing with
\* no play request in flight, no channel is connecting or open.
ChannelUp(i) == session[i].sock \in {"connecting", "open"}

C13_NoOpenChannel ==
  ( /\ ~isPlaying
    /\ \A i \in Sessions : session[i].pc \notin {"toneStart", "classify"}
    /\ \E i \in Sessions : session[i].pc = "done" )
  => \A i \in Sessions : ~ChannelUp(i)

\* C14: a stop request made while a session is shown playing, in whatever
\* phase, ends the session: once it is handled the session is not shown
\* playing and no dispatcher of it is left to dispatch an event.
C14_StopInAnyPhase ==
  (mounted /\ isPlaying) =>
    LET t == stopRequest(Cur) IN
      /\ ~t.isPlaying
      /\ \A i \in Sessions : t.session[i].seq # "live"

\* C15: in part_001, when the channel of a session closes after the client
\* closed it mid-stream, the buffer is discarded: no schedule is built, no
\* dispatcher is armed and the Transport is not started.
C15_CancelDiscardsBuffer ==
  [][ \A i \in Sessions :
        ( /\ build = "p1"
          /\ session[i].sock = "closing"
          /\ session'[i].sock = "closed" ) =>
            /\ session'[i].scheduledEvents = <<>>
            /\ session'[i].seq = "none"
            /\ ~session'[i].stopTimer
            /\ transport' = transport ]_vars

\* C16: once the error callback of a session's channel has run, no playback is
\* started for that session, the close callback that follows included.
C16_ChannelErrorFatal ==
  [][ \A i \in Sessions :
        WsError(i) => /\ session'[i].seq # "live"
                      /\ ~session'[i].stopTimer ]_vars

\* the play request of session i ended in the catch block before a channel
\* was made
FailedStart(i) == session[i].pc = "done" /\ session[i].sock = "none"

C18_FailureReported ==
  [][ \A i \in Sessions :
        /\ (build = "p1" /\ ClassifyFail(i)) => status' = "Error connecting to backend."
        /\ (build = "p1" /\ WsError(i)) => status' = "Error connecting to visualizer."
    ]_vars

\* C19: when the channel of a session closes with an empty buffer, the status
\* becomes the no-elements status and the system is not playing, no schedule is
\* built, no dispatcher and no self-stop is armed; and nothing of that session
\* is ever dispatched.
C19_EmptyScheduleIdle ==
  /\ [][ \A i \in Sessions :
           ( /\ ChannelLive(i)
             /\ session'[i].sock = "closed"
             /\ session[i].musicalEvents = <<>> ) =>
               /\ status' = "No parsable musical elements found."
               /\ ~isPlaying'
               /\ session'[i].scheduledEvents = <<>>
               /\ session'[i].seq = "none"
               /\ ~session'[i].stopTimer
               /\ sequenceRef' # i ]_vars
  /\ [](\A i \in Sessions :
          (session[i].sock = "closed" /\ session[i].musicalEvents = <<>>) =>
            /\ session[i].seq = "none"
            /\ ~session[i].stopTimer
            /\ session[i].dispatched = <<>>)

\* every message was dropped, the channel closed: no-elements status, not playing
C19_Witness ==
  \E i \in Sessions :
    /\ session[i].sock = "closed"
    /\ session[i].received # <<>>
    /\ session[i].musicalEvents = <<>>
    /\ status = "No parsable musical elements found."
    /\ ~isPlaying

\* C20: when a session's channel has closed with an empty buffer and the system
\* is Idle, no main voice is live.
C20_EmptyResultNoVoice ==
  (Idle /\ \E i \in Sessions :
             session[i].sock = "closed" /\ session[i].musicalEvents = <<>>)
  => liveVoices = {}

\* session i is Playing: its dispatcher is armed on the running Transport
Playing(i) == session[i].seq = "live" /\ transport = "started"

\* C21: every session that enters Playing eventually reaches Idle without any
\* user action, through the self-stop armed when playback began (the timers
\* that are due fire).
C21_SelfTerminates == \A i \in Sessions : Playing(i) ~> Idle

\* the same for part_001 alone (holds: its setTimeout is never cleared and its
\* stopMusic cannot throw)
C21_SelfTerminates_p1 == \A i \in Sessions : (build = "p1" /\ Playing(i)) ~> Idle

\* C22: after any stop the highlight is cleared, the list of markers is empty
\* and the camera effect is 0 (here: after every step in which the self-stop
\* runs stopMusic and stopMusic returns).
C22_StopClearsVisuals ==
  [][\A i \in Sessions :
       (SelfStop(i) /\ ~threw') => /\ highlightedLines' = <<>>
                                   /\ visualNodes' = <<>>
                                   /\ cameraEffect' = 0]_vars

\* a step in which a handler of a mounted component runs stopMusic: the
\* self-stop of a session or the catch block of a play request
StopStep == \E i \in Sessions : SelfStop(i) \/ ClassifyFail(i)

\* C23: stopping cancels every callback that has not fired, the self-stop
\* timer included: after every step in which stopMusic ran and returned, no
\* session has a self-stop pending or a dispatcher on the Transport.
C23_StopCancelsTimers ==
  [][(StopStep /\ ~threw') =>
       \A i \in Sessions : ~session'[i].stopTimer /\ session'[i].seq # "live"]_vars

\* C24: a theme change while a session is active leaves the session's voice
\* unchanged; the voice may be rebuilt for the new theme only while the
\* system is Idle.
C24_ThemeChangeKeepsActiveVoice ==
  [][\A name \in ThemeNames :
       (ThemeChange(name) /\ ~Idle) =>
          synthRef' = synthRef /\ liveVoices' = liveVoices]_vars

\* the genre labels a palette is registered under, the theme keys a voice
\* configuration set is registered under, and inputs of both kinds that are
\* registered and that are not
RegisteredGenres == {"JS-Async", "Go-Systems"}
RegisteredThemeKeys == {"default", "disney"}
ThemeKeyInputs == RegisteredThemeKeys \cup {"retro"}
ResolvedKey(g) == IF g \in RegisteredGenres THEN g ELSE "default"
ResolvedTheme(k) == IF k \in RegisteredThemeKeys THEN k ELSE "default"

ScenarioAFirst(i) ==
  /\ session[i].scale = DefaultScale
  /\ Len(session[i].received) >= 1
  /\ session[i].received[1] = ScenarioA

\* the first buffered event of session i is the single note n, an eighth
\* note, and part_001's schedule, once built, has it at time 0
FirstEventIs(i, n) ==
  /\ Len(session[i].musicalEvents) >= 1
  /\ session[i].musicalEvents[1].note = << n >>
  /\ session[i].musicalEvents[1].duration = "8n"
  /\ (build = "p1" /\ Built(i)) => session[i].scheduledEvents[1].time = 0

\* C26 (as the code has it): on the scale C4..C5, {for_statement, startLine 1,
\* endLine 3} received first in a session (index 0) becomes the note D4,
\* scale degree abs(1 + 0) mod 8 = 1, an eighth note, scheduled at offset 0.
C26_ScenarioA_D4 ==
  \A i \in Sessions : ScenarioAFirst(i) => FirstEventIs(i, "D4")

\* C26 as stated: the same event becomes the note C4.
C26_ScenarioA_C4 ==
  \A i \in Sessions : ScenarioAFirst(i) => FirstEventIs(i, "C4")

\* Scenario A has been ingested and, in part_001, scheduled
C26_Witness ==
  /\ build = "p1"
  /\ ScenarioAFirst(1)
  /\ Built(1)
  /\ session[1].scheduledEvents[1].note = <<"D4">>

\* C27: Scenario B: on the scale C4..C5, {function_declaration, startLine 0,
\* endLine 8} received first in a session (index 0) is emitted, not dropped,
\* as the chord C4, F4 with quarter-note duration.
C27_ScenarioB ==
  \A i \in Sessions :
    ( /\ session[i].scale = DefaultScale
      /\ Len(session[i].received) >= 1
      /\ session[i].received[1] = ScenarioB )
    => /\ Len(session[i].musicalEvents) >= 1
       /\ session[i].musicalEvents[1].note = <<"C4", "F4">>
       /\ session[i].musicalEvents[1].duration = "4n"

\* the same for part_001 alone (holds)
C27_ScenarioB_p1 == build = "p1" => C27_ScenarioB

\* C28: error ducking is temporary: once the restorations of all the error
\* events dispatched so far have run, the main voice's level is the level it
\* had before any ducking and no secondary voice is left undisposed, also
\* when error events follow one another within the restoration delay.
C28_DuckingRestored ==
  [][(RestoreFire /\ restores' = <<>> /\ ~threw') =>
       /\ volume' = inlineSynth(activePalette).volume
       /\ errVoices' = 0]_vars

\* the summary entry the claim gives an ErrorEvent: line, kind, message and a
\* severity of at least 1
SummaryEntry(d) ==
  [ line |-> d.line, type |-> d.type, message |-> d.message,
    severity |-> IF Has(d, "severity") /\ d.severity >= 1 THEN d.severity ELSE 1 ]

\* the entries of the ErrorEvents among msgs, in the order of msgs
ErrorSummary(msgs) ==
  LET errs == SelectSeq(msgs, IsErr)
  IN [k \in 1..Len(errs) |-> SummaryEntry(errs[k])]

\* C29: in part_001, at the step in which a session's channel closes the
\* error summary list becomes exactly the entries of the ErrorEvents the
\* session received, in arrival order, each with severity >= 1; and no
\* dispatch or draw step of the playback changes the list.
C29_ErrorSummaryExact ==
  /\ [][\A i \in Sessions :
          (build = "p1" /\ (WsClose(i) \/ WsError(i))) =>
             allErrors' = ErrorSummary(session[i].received)]_vars
  /\ [][(build = "p1" /\ (DrawFire \/ \E i \in Sessions : SequenceFire(i))) =>
          allErrors' = allErrors]_vars

\* a session that received two ErrorEvents, one of them with severity 0, has
\* closed and a draw callback of its playback has set the highlight
C29_Witness ==
  /\ build = "p1"
  /\ session[1].sock = "closed"
  /\ Len(allErrors) = 2
  /\ allErrors = ErrorSummary(session[1].received)
  /\ \E k \in 1..2 : session[1].received[k].severity = 0
  /\ highlightedLines # <<>>

\* the statuses of a failed session
FailureStatus == {"Error connecting to backend.", "Error connecting to visualizer."}

\* the number of error events in a buffer
ErrorCount(events) == Len(SelectSeq(events, IsErr))

C31_DispatchedAtOffset ==
  \A i \in Sessions :
    \A n \in 1..Len(session[i].dispatched) :
      session[i].times[n] =
        SumDur(sequenceEvents(Cur, i), session[i].dispatched[n] - 1)

\* C32: playback is single-pass: in every session the indices dispatched are
\* strictly increasing, so no event is dispatched twice, and once the last
\* event of the schedule has been dispatched nothing of it is dispatched again.
C32_SinglePass ==
  /\ [](\A i \in Sessions :
          \A m, n \in 1..Len(session[i].dispatched) :
             m < n => session[i].dispatched[m] < session[i].dispatched[n])
  /\ [][\A i \in Sessions :
          ( /\ session[i].dispatched # <<>>
            /\ Last(session[i].dispatched) = Len(sequenceEvents(Cur, i)) )
          => session'[i].dispatched = session[i].dispatched]_vars

\* the last of two events has been dispatched and the sequence is still on the
\* running Transport
C32_Witness ==
  \E i \in Sessions :
    /\ session[i].dispatched = <<1, 2>>
    /\ Len(sequenceEvents(Cur, i)) = 2
    /\ session[i].seq = "live"
    /\ transport = "started"

\* C33: in a session that the user does not stop and that does not fail,
\* every event of the schedule has been dispatched when the self-stop fires.
C33_SelfStopAfterLastEvent ==
  [][\A i \in Sessions :
       SelfStop(i) => Len(session[i].dispatched) = Len(sequenceEvents(Cur, i))]_vars

\* the same for App.tsx alone (holds)
C33_SelfStopAfterLastEvent_app ==
  [][\A i \in Sessions :
       (build = "app" /\ SelfStop(i)) =>
          Len(session[i].dispatched) = Len(sequenceEvents(Cur, i))]_vars

\* the line an error event was reported at: part_001 keeps the message's
\* line field, App.tsx stores it as startLine
ReportedLine(event) == IF Has(event, "line") THEN event.line ELSE event.startLine

\* the line span the claim gives an event: [n, n] for an error reported at
\* line n, the event's startLine and endLine otherwise
ClaimedSpan(event) ==
  IF IsErr(event)
  THEN [start |-> ReportedLine(event), end |-> ReportedLine(event)]
  ELSE [start |-> event.startLine, end |-> event.endLine]

\* C34: when the visual update of a dispatched event runs, the highlighted
\* range becomes the event's line span, [n, n] for an error event reported at
\* line n, and the camera effect becomes 1 for a normal event and 2 for an
\* error event.
C34_HighlightFollowsEvent ==
  [][DrawFire =>
       LET e == Head(draws)
           event == sequenceEvents(Cur, e.s)[e.k]
       IN /\ highlightedLines' = << ClaimedSpan(event) >>
          /\ cameraEffect' = IF IsErr(event) THEN 2 ELSE 1]_vars

\* C35: audio routing is exclusive by kind: the trigger of an error event goes
\* to a secondary voice and not to the main voice, the trigger of a normal
\* event goes to the main voice and to no secondary voice.
C35_RoutingExclusive ==
  \A i \in Sessions :
    \A n \in 1..Len(session[i].dispatched) :
      LET event == sequenceEvents(Cur, i)[session[i].dispatched[n]]
      IN session[i].routes[n] =
           IF IsErr(event) THEN [main |-> FALSE, secondary |-> TRUE]
           ELSE [main |-> TRUE, secondary |-> FALSE]

\* the same for part_001 alone (holds)
C35_RoutingExclusive_p1 == build = "p1" => C35_RoutingExclusive

\* C36: no secondary voice outlives its session: whenever the system is Idle
\* and a session has ended, no secondary voice is left undisposed.
C36_NoSecondaryVoiceLeft ==
  (Idle /\ \E i \in Sessions : SessionEnded(i)) => errVoices = 0

\* the scale selected right after the classification of session i: that of
\* the palette chosen then, in the theme the play request saw
ScaleAtStart(i) == themePalettes(session[i].theme)[activePalette].scale

\* C37: the palette is fixed for the whole session.  In part_001 the scale of
\* a classified session never changes, whatever step is taken (a theme change
\* included), and every structural event the session emits is mapped with
\* the scale selected right after its classification.
C37_PaletteFixed ==
  /\ [][\A i \in Sessions :
          (build = "p1" /\ session[i].sock # "none") =>
             session'[i].scale = session[i].scale]_vars
  /\ [][\A i \in Sessions :
          ( /\ build = "p1"
            /\ Delivered(i)
            /\ ~IsErr(DeliveredMsg(i))
            /\ ~ClaimDropped(DeliveredMsg(i).type) )
          => /\ Len(session'[i].musicalEvents) = Len(session[i].musicalEvents) + 1
             /\ << Last(session'[i].musicalEvents).note,
                   Last(session'[i].musicalEvents).duration >>
                  = ClaimedNote(DeliveredMsg(i), session[i].messageCounter,
                                ScaleAtStart(i))]_vars

\* the theme is no longer the one the play request saw, the voice has been
\* rebuilt for it, and the session has buffered two structural events
C37_Witness ==
  /\ build = "p1"
  /\ session[1].theme = "Default Dark"
  /\ theme = "Disney"
  /\ currentThemeRef = "disney"
  /\ session[1].sock = "open"
  /\ Len(session[1].musicalEvents) = 2
  /\ session[1].musicalEvents[2].note = << ScaleAtStart(1)[3] >>
  /\ ScaleAtStart(1)[3] # themePalettes(theme)[activePalette].scale[3]

\* C38: the error summary is session-scoped.  In part_001, from the moment a
\* new session is started the error summary list holds no entry received in
\* an earlier session: right after the step in which a play request starts a
\* session the list, which can only hold earlier entries, is empty.
C38_SummarySessionScoped ==
  [][\A i \in Sessions :
       (build = "p1" /\ HandlePlay(i)) => allErrors' = <<>>]_vars

\* C39: at every reachable state at most one main voice is live (created and
\* not disposed), the one synth.current refers to, over any sequence of
\* sessions and theme changes.
C39_OneMainVoice ==
  /\ Cardinality(liveVoices) <= 1
  /\ liveVoices \subseteq {synthRef}

\* a second session runs on the fourth voice made, after theme changes that
\* rebuilt the voice
C39_Witness ==
  /\ nVoices = MaxVoices + 1
  /\ liveVoices = {nVoices}
  /\ session[2].sock = "open"
  /\ theme = "Disney"

\* C40: the list of visual markers is bounded.  After any number of dispatched
\* events it holds at most 31 markers, and a draw callback leaves the 30 most
\* recent earlier markers followed by the new one, the newest marker last.
C40_MarkersBounded ==
  /\ [](Len(visualNodes) <= 31)
  /\ [][DrawFire =>
          LET e == Head(draws)
              n == Len(visualNodes)
              kept == IF n <= 30 THEN visualNodes ELSE SubSeq(visualNodes, n - 29, n)
          IN /\ Last(visualNodes').of = <<e.s, e.k>>
             /\ SubSeq(visualNodes', 1, Len(visualNodes') - 1) = kept]_vars

\* the marker of the 32nd event has been drawn: the list holds the markers of
\* events 2..32
C40_Witness ==
  /\ Len(visualNodes) = 31
  /\ visualNodes[1].of = <<1, 2>>
  /\ Last(visualNodes).of = <<1, 32>>
====
